---- MODULE Spec2Model ----
(***************************************************************************)
(* A model of shallow_backup/reinstall.py: the four reinstallation entry   *)
(* points (dotfiles, packages, fonts, configs) and reinstall_all_sb.       *)
(*                                                                         *)
(* Paths and file names are sequences of one-character strings, so that    *)
(* str.startswith, slicing, str.replace, str.split, os.path.join and       *)
(* pathlib's normalisation are computed the way Python computes them.      *)
(***************************************************************************)
EXTENDS Integers, Sequences, FiniteSets, TLC

(* ------------------------------------------------------------------ *)
(* Bounds of the model                                                 *)
(* ------------------------------------------------------------------ *)
MaxRules == 2
MaxPathLen == 3
MaxLines == 2

(* ------------------------------------------------------------------ *)
(* Strings                                                             *)
(* ------------------------------------------------------------------ *)
SEP == "/"
SENTINEL == ":"

\* code points of the characters used, for Python's string ordering
Ord(c) ==
    CASE c = " " -> 32
      [] c = "'" -> 39
      [] c = "-" -> 45
      [] c = "." -> 46
      [] c = "/" -> 47
      [] c = ":" -> 58
      [] c = "_" -> 95
      [] c = "a" -> 97
      [] c = "b" -> 98
      [] c = "c" -> 99
      [] c = "d" -> 100
      [] c = "e" -> 101
      [] c = "f" -> 102
      [] c = "h" -> 104
      [] c = "m" -> 109
      [] c = "n" -> 110
      [] c = "p" -> 112
      [] OTHER -> 120

RECURSIVE StrLess(_, _)
StrLess(s, t) ==
    IF t = <<>> THEN FALSE
    ELSE IF s = <<>> THEN TRUE
    ELSE IF Head(s) = Head(t) THEN StrLess(Tail(s), Tail(t))
    ELSE Ord(Head(s)) < Ord(Head(t))

\* sorted(set of strings)
RECURSIVE Sorted(_)
Sorted(S) ==
    IF S = {} THEN <<>>
    ELSE LET m == CHOOSE x \in S : \A y \in S \ {x} : StrLess(x, y)
         IN  <<m>> \o Sorted(S \ {m})

\* s.startswith(p)
StartsWith(s, p) ==
    /\ Len(p) <= Len(s)
    /\ SubSeq(s, 1, Len(p)) = p

\* s[n:]
Drop(s, n) == SubSeq(s, n + 1, Len(s))

\* s.replace(old, new), old non-empty: every non-overlapping occurrence, left to right
RECURSIVE Replace(_, _, _)
Replace(s, old, new) ==
    IF Len(s) < Len(old) \/ old = <<>> THEN s
    ELSE IF StartsWith(s, old) THEN new \o Replace(Drop(s, Len(old)), old, new)
    ELSE <<Head(s)>> \o Replace(Tail(s), old, new)

\* s.split(c)[0]
RECURSIVE SplitFirst(_, _)
SplitFirst(s, c) ==
    IF s = <<>> \/ Head(s) = c THEN <<>>
    ELSE <<Head(s)>> \o SplitFirst(Tail(s), c)

\* s.split("/") as a sequence of components (empty ones included)
RECURSIVE SplitSep(_, _)
SplitSep(s, cur) ==
    IF s = <<>> THEN <<cur>>
    ELSE IF Head(s) = SEP THEN <<cur>> \o SplitSep(Tail(s), <<>>)
    ELSE SplitSep(Tail(s), Append(cur, Head(s)))

\* "/".join(cs)
RECURSIVE JoinSep(_)
JoinSep(cs) ==
    IF cs = <<>> THEN <<>>
    ELSE IF Len(cs) = 1 THEN cs[1]
    ELSE cs[1] \o <<SEP>> \o JoinSep(Tail(cs))

\* os.path.join(a, b) on POSIX
Join(a, b) ==
    IF StartsWith(b, <<SEP>>) THEN b
    ELSE IF a = <<>> \/ a[Len(a)] = SEP THEN a \o b
    ELSE a \o <<SEP>> \o b

(* ------------------------------------------------------------------ *)
(* pathlib                                                             *)
(* ------------------------------------------------------------------ *)
IsName(c) == c # <<>> /\ c # <<".">>

\* the components pathlib keeps: empty and "." components are dropped
Parts(s) == SelectSeq(SplitSep(s, <<>>), IsName)

\* the root pathlib keeps: exactly two leading separators are preserved
Root(s) ==
    IF StartsWith(s, <<SEP, SEP>>) /\ ~StartsWith(s, <<SEP, SEP, SEP>>) THEN <<SEP, SEP>>
    ELSE IF StartsWith(s, <<SEP>>) THEN <<SEP>>
    ELSE <<>>

\* str(Path(s))
PurePath(s) ==
    LET r == Root(s) \o JoinSep(Parts(s))
    IN  IF r = <<>> THEN <<".">> ELSE r

\* str(Path(p).parent), p already a Path
Parent(p) ==
    LET cs == Parts(p)
    IN  IF cs = <<>> THEN p
        ELSE PurePath(Root(p) \o JoinSep(SubSeq(cs, 1, Len(cs) - 1)))

\* the last component of a path: s.split("/")[-1]
LastPart(s) == LET cs == SplitSep(s, <<>>) IN cs[Len(cs)]

\* the file the operating system resolves a path string to
FsKey(s) ==
    IF StartsWith(s, <<SEP>>) THEN <<SEP>> \o JoinSep(Parts(s))
    ELSE PurePath(JoinSep(Parts(s)))

\* the proper ancestors of a resolved path, nearest last
RECURSIVE Ancestors(_)
Ancestors(k) ==
    IF Parent(k) = k THEN <<>>
    ELSE Ancestors(Parent(k)) \o <<Parent(k)>>


(* ------------------------------------------------------------------ *)
(* State                                                               *)
(* ------------------------------------------------------------------ *)
VARIABLES
    entry,          \* the entry point that was called
    all_dry_run,    \* the dry_run argument of the call
    dry_run,        \* the dry_run parameter of the running entry point
    pc,             \* where the run is
    exc,            \* the exception that ended the run, "none" if none
    dots_path,      \* reinstall_dots_sb's dots_path
    home_path,      \* reinstall_dots_sb's home_path
    config,         \* get_config()["dotfiles"]: rules in dict order
    files,          \* the regular files of the filesystem
    dirs,           \* the directories of the filesystem
    denied,         \* the paths the user may not create or write
    vanishing,      \* backup files deleted after they were listed
    i,              \* index of the rule being expanded
    dotfiles_to_reinstall,
    full_path_dotfiles_to_reinstall,
    j,              \* index of the pair being copied
    reinstallation_error_count,
    files_with_permission_errors,
    permission_report,  \* the list print_list_pretty printed
    pkg_files,      \* os.listdir(packages_path)
    vscode_lines,   \* number of lines of vscode_list.txt
    package_mgrs,   \* the managers found in packages_path
    pm_done,        \* the managers the loop has handled
    fonts_todo,     \* the fonts still to be copied
    config_mapping, \* get_config()["config_mapping"] in dict order
    k,              \* index of the config mapping being copied
    report,         \* what was printed
    procs,          \* the processes that were started
    writes,         \* the filesystem writes that were made
    phases          \* start and end of each entry point, with its dry_run

vars == <<entry, all_dry_run, dry_run, pc, exc, dots_path, home_path, config, files, dirs,
          denied, vanishing, i, dotfiles_to_reinstall,
          full_path_dotfiles_to_reinstall, j, reinstallation_error_count,
          files_with_permission_errors, permission_report, pkg_files,
          vscode_lines, package_mgrs, pm_done, fonts_todo, config_mapping, k,
          report,
          procs, writes, phases>>

inputVars == <<entry, all_dry_run, dots_path, home_path, config, denied, vanishing,
               pkg_files, vscode_lines, config_mapping>>
dotsVars == <<i, dotfiles_to_reinstall, full_path_dotfiles_to_reinstall, j,
              reinstallation_error_count, files_with_permission_errors,
              permission_report>>
otherVars == <<package_mgrs, pm_done, fonts_todo, k>>

Msg(kind, a, b) == [kind |-> kind, a |-> a, b |-> b]
PhaseEv(phase, ev, dry) == [phase |-> phase, ev |-> ev, dry |-> dry]

(* ------------------------------------------------------------------ *)
(* The filesystem                                                      *)
(* ------------------------------------------------------------------ *)
\* os.path.isfile(s)
IsFile(s) == IsName(LastPart(s)) /\ FsKey(s) \in files

\* os.path.isdir(s)
IsDir(s) == FsKey(s) \in dirs

\* f lies strictly beneath directory d (both resolved)
IsUnder(f, d) ==
    LET pf == Parts(f)
        pd == Parts(d)
    IN  Len(pd) < Len(pf) /\ SubSeq(pf, 1, Len(pd)) = pd

\* the path of f relative to d
RelTo(f, d) == JoinSep(SubSeq(Parts(f), Len(Parts(d)) + 1, Len(Parts(f))))

\* utils.get_abs_path_subfiles(directory): every regular file at any depth
\* beneath the directory, named as os.walk names it; nothing for a missing path
get_abs_path_subfiles(directory) ==
    LET d == FsKey(directory)
    IN  Sorted({Join(directory, RelTo(f, d)) : f \in {g \in files : IsUnder(g, d)}})

\* the test utils.exit_if_dir_is_empty makes
DirIsEmpty(path) == ~\E f \in files \cup dirs : IsUnder(f, FsKey(path))

\* every directory a set of files needs
DirsOf(fs) == UNION {{a[n] : n \in 1..Len(a)} : a \in {Ancestors(f) : f \in fs}}

(* ------------------------------------------------------------------ *)
(* reinstall_dots_sb                                                   *)
(* ------------------------------------------------------------------ *)
\* utils.evaluate_condition: no condition passes without running anything,
\* a condition is run by the shell and passes when the command succeeds
ConditionRuns(cond) == cond # ""
ConditionSuccess(cond) == cond # "false"

\* lines 46-47: the leading separator of an absolute identifier becomes ':'
Encode(id) ==
    IF StartsWith(id, <<SEP>>) THEN <<SENTINEL>> \o Drop(id, 1) ELSE id

\* the listing with the rule's own path put in front of what lies beneath it
RuleSourcesWithDir(dp, id) ==
    LET real_path_dotfile == Join(dp, Encode(id))
    IN  IF IsFile(real_path_dotfile) THEN <<real_path_dotfile>>
        ELSE <<real_path_dotfile>> \o get_abs_path_subfiles(real_path_dotfile)

\* lines 49-54: the backup files one accepted rule denotes
RuleSources(dp, id) ==
    LET real_path_dotfile == Join(dp, Encode(id))
    IN  IF IsFile(real_path_dotfile) THEN <<real_path_dotfile>>
        ELSE get_abs_path_subfiles(real_path_dotfile)

\* the decoding with the marker appended to dots_path without os.path.join
DestNoJoin(dp, hp, source) ==
    LET abs_path_start == dp \o <<SENTINEL>>
    IN  IF StartsWith(source, abs_path_start)
        THEN <<SEP>> \o Drop(source, Len(abs_path_start))
        ELSE Replace(source, dp, hp \o <<SEP>>)

\* lines 63-68: the destination string of one source
Dest(dp, hp, source) ==
    LET abs_path_start == Join(dp, <<SENTINEL>>)
    IN  IF StartsWith(source, abs_path_start)
        THEN <<SEP>> \o Drop(source, Len(abs_path_start))
        ELSE Replace(source, dp, hp \o <<SEP>>)

\* line 69: the (source, destination) pair of Path objects
Pair(dp, hp, source) ==
    [src |-> PurePath(source), dst |-> PurePath(Dest(dp, hp, source))]

\* the loop body without its "continue"
SourcesAfterNoSkip(acc, rule) == acc \o RuleSources(dots_path, rule.id)

\* lines 38-54: the source list after one rule: a rule whose condition fails
\* is skipped
SourcesAfter(acc, rule) ==
    IF ~ConditionSuccess(rule.cond) THEN acc
    ELSE acc \o RuleSources(dots_path, rule.id)

\* the calls of reinstall_all_sb in another order
AfterPhaseSwapped(phase) ==
    IF entry # "all" THEN "done"
    ELSE CASE phase = "dots" -> "fonts_start"
           [] phase = "fonts" -> "packages_start"
           [] phase = "packages" -> "configs_start"
           [] OTHER -> "done"

\* the entry point returns: the next phase of reinstall_all_sb, or the end
AfterPhase(phase) ==
    IF entry # "all" THEN "done"
    ELSE CASE phase = "dots" -> "packages_start"
           [] phase = "packages" -> "fonts_start"
           [] phase = "fonts" -> "configs_start"
           [] OTHER -> "done"

\* lines 232-235: the dry_run each call of reinstall_all_sb passes on
PassedDryRun == all_dry_run

\* the dry_run parameter of the entry point that runs next
NextDryRun == IF entry = "all" THEN PassedDryRun ELSE dry_run

\* lines 27-35: the call, the emptiness check and the header
DotsStart ==
    /\ pc = "dots_start"
    /\ phases' = Append(phases, PhaseEv("dots", "start", dry_run))
    /\ IF DirIsEmpty(dots_path)
       THEN /\ pc' = "exit"
            /\ exc' = "SystemExit"
            /\ report' = Append(report, Msg("no_backup", dots_path, <<>>))
       ELSE /\ pc' = "dots_rules"
            /\ exc' = exc
            /\ report' = Append(report, Msg("header", <<>>, <<>>))
    /\ i' = 1
    /\ dotfiles_to_reinstall' = <<>>
    /\ UNCHANGED <<inputVars, dry_run, files, dirs, full_path_dotfiles_to_reinstall, j,
                   reinstallation_error_count, files_with_permission_errors,
                   permission_report, otherVars, procs, writes>>

\* lines 36-54: one iteration of the loop over the rules
DotsRule ==
    /\ pc = "dots_rules"
    /\ i <= Len(config)
    /\ LET id == config[i].id
           cond == config[i].cond
       IN  /\ procs' = IF ConditionRuns(cond)
                       THEN Append(procs, Msg("condition", id, <<>>))
                       ELSE procs
           /\ dotfiles_to_reinstall' = SourcesAfter(dotfiles_to_reinstall, config[i])
    /\ i' = i + 1
    /\ UNCHANGED <<inputVars, dry_run, pc, exc, files, dirs,
                   full_path_dotfiles_to_reinstall, j,
                   reinstallation_error_count, files_with_permission_errors,
                   permission_report, otherVars, report, writes, phases>>

\* lines 56-71: the pair list and the empty accumulators
DotsPairs ==
    /\ pc = "dots_rules"
    /\ i > Len(config)
    /\ reinstallation_error_count' = 0
    /\ full_path_dotfiles_to_reinstall' =
           [n \in 1..Len(dotfiles_to_reinstall) |->
               Pair(dots_path, home_path, dotfiles_to_reinstall[n])]
    /\ files_with_permission_errors' = {}
    /\ j' = 1
    /\ pc' = "dots_copy"
    /\ UNCHANGED <<inputVars, dry_run, exc, files, dirs, i, dotfiles_to_reinstall,
                   permission_report, otherVars, report, procs, writes, phases>>


\* utils.safe_mkdir(directory): create the directory and its missing
\* ancestors, top down; what was made, and the exception that stopped it
RECURSIVE MakeDirs(_, _)
MakeDirs(chain, made) ==
    IF chain = <<>> THEN [made |-> made, exc |-> "none"]
    ELSE IF Head(chain) \in dirs THEN MakeDirs(Tail(chain), made)
    ELSE IF Head(chain) \in files THEN [made |-> made, exc |-> "NotADirectoryError"]
    ELSE IF Head(chain) \in denied THEN [made |-> made, exc |-> "PermissionError"]
    ELSE MakeDirs(Tail(chain), made \cup {Head(chain)})

safe_mkdir(directory) ==
    IF IsDir(directory) THEN [made |-> {}, exc |-> "none"]
    ELSE MakeDirs(Ancestors(FsKey(directory)) \o <<FsKey(directory)>>, {})

\* shutil.copy(src, dst): into dst when dst is a directory
CopyTarget(src, dst) ==
    IF IsDir(dst) THEN Join(dst, LastPart(src)) ELSE dst

\* what shutil.copy(src, dst) raises, "none" when it copies
CopyOutcome(src, dst) ==
    IF FsKey(src) \notin files \/ FsKey(src) \in vanishing THEN "FileNotFoundError"
    ELSE IF IsDir(CopyTarget(src, dst)) THEN "IsADirectoryError"
    ELSE IF FsKey(CopyTarget(src, dst)) \in denied THEN "PermissionError"
    ELSE "none"

\* utils.find_path_for_permission_error_reporting(err.filename)
find_path_for_permission_error_reporting(filename) == filename

\* the test made on the destination instead of its parent
ParentIsFileWrongPath(dot_dest) == IsFile(dot_dest)

\* lines 82-87: the destination's parent is a regular file
ParentIsFile(dot_dest) == IsFile(Parent(dot_dest))

\* lines 92-97: the exceptions of copy() the loop catches
CopyCaught == {"PermissionError", "FileNotFoundError"}

\* lines 73-97: one iteration of the copy loop
DotsCopy ==
    /\ pc = "dots_copy"
    /\ j <= Len(full_path_dotfiles_to_reinstall)
    /\ LET dot_source == full_path_dotfiles_to_reinstall[j].src
           dot_dest == full_path_dotfiles_to_reinstall[j].dst
           mk == safe_mkdir(Parent(dot_dest))
           target == CopyTarget(dot_source, dot_dest)
           out == CopyOutcome(dot_source, dot_dest)
           mkdirs == IF mk.made = {} THEN <<>>
                     ELSE <<Msg("mkdir", <<>>, Parent(dot_dest))>>
       IN  IF dry_run
           THEN /\ report' = Append(report, Msg("dry_run_copy", dot_source, dot_dest))
                /\ j' = j + 1
                /\ UNCHANGED <<pc, exc, files, dirs, reinstallation_error_count,
                               files_with_permission_errors, writes>>
           ELSE IF ParentIsFile(dot_dest)
           THEN /\ report' = Append(report, Msg("parent_is_file", Parent(dot_dest), dot_dest))
                /\ reinstallation_error_count' = reinstallation_error_count + 1
                /\ j' = j + 1
                /\ UNCHANGED <<pc, exc, files, dirs, files_with_permission_errors, writes>>
           ELSE IF mk.exc # "none"
           THEN /\ pc' = "exit"
                /\ exc' = mk.exc
                /\ dirs' = dirs \cup mk.made
                /\ writes' = writes \o mkdirs
                /\ UNCHANGED <<files, j, report, reinstallation_error_count,
                               files_with_permission_errors>>
           ELSE /\ dirs' = dirs \cup mk.made
                /\ files' = IF out = "none" THEN files \cup {FsKey(target)} ELSE files
                /\ writes' = IF out = "none"
                             THEN writes \o mkdirs \o <<Msg("copy", dot_source, target)>>
                             ELSE writes \o mkdirs
                /\ files_with_permission_errors' =
                       IF out = "PermissionError"
                       THEN files_with_permission_errors
                                \cup {find_path_for_permission_error_reporting(target)}
                       ELSE files_with_permission_errors
                /\ report' = IF out = "FileNotFoundError"
                             THEN Append(report, Msg("error", dot_source, <<>>))
                             ELSE report
                /\ IF out = "none" \/ out \in CopyCaught
                   THEN /\ j' = j + 1
                        /\ UNCHANGED <<pc, exc>>
                   ELSE /\ pc' = "exit"
                        /\ exc' = out
                        /\ j' = j
                /\ UNCHANGED reinstallation_error_count
    /\ UNCHANGED <<inputVars, dry_run, i, dotfiles_to_reinstall,
                   full_path_dotfiles_to_reinstall, permission_report,
                   otherVars, procs, phases>>

\* lines 99-109: the end-of-batch report
DotsReport ==
    /\ pc = "dots_copy"
    /\ j > Len(full_path_dotfiles_to_reinstall)
    /\ report' = report
           \o (IF reinstallation_error_count # 0
               THEN <<Msg("manual_resolution", <<>>, <<>>)>> ELSE <<>>)
           \o (IF Cardinality(files_with_permission_errors) # 0
               THEN <<Msg("permission_errors", <<>>, <<>>)>> ELSE <<>>)
           \o <<Msg("completed", <<>>, <<>>)>>
    /\ permission_report' =
           IF Cardinality(files_with_permission_errors) # 0
           THEN Sorted(files_with_permission_errors) ELSE <<>>
    /\ phases' = Append(phases, PhaseEv("dots", "end", dry_run))
    /\ pc' = AfterPhase("dots")
    /\ dry_run' = NextDryRun
    /\ UNCHANGED <<inputVars, exc, files, dirs, i, dotfiles_to_reinstall,
                   full_path_dotfiles_to_reinstall, j, reinstallation_error_count,
                   files_with_permission_errors, otherVars, procs, writes>>


(* ------------------------------------------------------------------ *)
(* reinstall_packages_sb                                               *)
(* ------------------------------------------------------------------ *)
\* file names of the packages directory, cut at their separators
ListFile(mgr) == <<mgr, "_", "list.txt">>

\* lines 168-177: the managers the code knows
KnownManagers ==
    {<<"gem">>, <<"cargo">>, <<"npm">>, <<"pip">>, <<"pip3">>, <<"brew">>,
     <<"vscode">>, <<"macports">>}

\* line 167: file.split("_")[0].replace("-", " ")
Manager(file) == Replace(SplitFirst(file, "_"), <<"-">>, <<" ">>)

\* lines 165-178: the set of managers found
FoundManagers(listing) ==
    {SplitFirst(f, "_") : f \in {g \in listing : Manager(g) \in KnownManagers}}

\* the n-th line of vscode_list.txt
Line(n) == [m \in 1..n |-> "x"]

\* lines 188-219: the commands built for one manager, in order
Commands(pm) ==
    IF pm = <<"macports">> THEN <<>>
    ELSE IF pm = <<"vscode">>
    THEN [n \in 1..vscode_lines |-> Msg("cmd", <<"code">>, Line(n))]
    ELSE IF pm \in KnownManagers THEN <<Msg("cmd", pm, ListFile(pm[1]))>>
    ELSE <<>>

\* lines 153-159: run_cmd_if_no_dry_run over the commands of one manager
PrintedCmds(cmds) == IF dry_run THEN cmds ELSE <<>>
RunCmds(cmds) == IF dry_run THEN <<>> ELSE cmds

\* lines 161-183: the call, the emptiness check and the managers found
PackagesStart ==
    /\ pc = "packages_start"
    /\ phases' = Append(phases, PhaseEv("packages", "start", dry_run))
    /\ IF pkg_files = {}
       THEN /\ pc' = "exit"
            /\ exc' = "SystemExit"
            /\ report' = Append(report, Msg("no_backup", <<"packages">>, <<>>))
            /\ UNCHANGED package_mgrs
       ELSE /\ pc' = "packages_loop"
            /\ exc' = exc
            /\ package_mgrs' = FoundManagers(pkg_files)
            /\ report' = Append(report, Msg("header", <<>>, <<>>))
    /\ pm_done' = {}
    /\ UNCHANGED <<inputVars, dry_run, files, dirs, dotsVars, fonts_todo, k, procs, writes>>

\* lines 187-219: one iteration of the loop over the managers, in set order
PackagesManager ==
    /\ pc = "packages_loop"
    /\ \E pm \in package_mgrs \ pm_done :
        /\ pm_done' = pm_done \cup {pm}
        /\ IF pm = <<"vscode">> /\ ListFile("vscode") \notin pkg_files
           THEN /\ pc' = "exit"
                /\ exc' = "FileNotFoundError"
                /\ report' = Append(report, Msg("reinstall", pm, <<>>))
                /\ procs' = procs
           ELSE /\ UNCHANGED <<pc, exc>>
                /\ report' = Append(report,
                                    Msg(IF pm = <<"macports">> THEN "unsupported"
                                        ELSE "reinstall", pm, <<>>))
                             \o PrintedCmds(Commands(pm))
                /\ procs' = procs \o RunCmds(Commands(pm))
    /\ UNCHANGED <<inputVars, dry_run, files, dirs, dotsVars, package_mgrs, fonts_todo, k,
                   writes, phases>>

\* line 221: the loop is over
PackagesEnd ==
    /\ pc = "packages_loop"
    /\ package_mgrs \ pm_done = {}
    /\ report' = Append(report, Msg("completed", <<>>, <<>>))
    /\ phases' = Append(phases, PhaseEv("packages", "end", dry_run))
    /\ pc' = AfterPhase("packages")
    /\ dry_run' = NextDryRun
    /\ UNCHANGED <<inputVars, exc, files, dirs, dotsVars, otherVars, procs, writes>>

(* ------------------------------------------------------------------ *)
(* reinstall_fonts_sb and reinstall_configs_sb                         *)
(* ------------------------------------------------------------------ *)
fonts_path == <<"/", "n">>
configs_path == <<"/", "c">>
\* compatibility.get_fonts_dir()
fonts_dir == <<"/", "l">>

\* shlex.quote(s): a string with an unsafe character is put in quotes
Unsafe == {" ", "'"}
Quote(s) ==
    IF s = <<>> \/ \E n \in 1..Len(s) : s[n] \in Unsafe
    THEN <<"'">> \o s \o <<"'">>
    ELSE s

\* what shutil.copyfile(src, dst) raises, "none" when it copies
CopyfileOutcome(src, dst) ==
    IF ~IsFile(src) THEN "FileNotFoundError"
    ELSE IF IsDir(dst) THEN "IsADirectoryError"
    ELSE IF ~IsDir(Parent(PurePath(dst))) THEN "FileNotFoundError"
    ELSE IF FsKey(dst) \in denied THEN "PermissionError"
    ELSE "none"

\* lines 114-118: the call, the emptiness check and the font list
FontsStart ==
    /\ pc = "fonts_start"
    /\ phases' = Append(phases, PhaseEv("fonts", "start", dry_run))
    /\ IF DirIsEmpty(fonts_path)
       THEN /\ pc' = "exit"
            /\ exc' = "SystemExit"
            /\ report' = Append(report, Msg("no_backup", fonts_path, <<>>))
       ELSE /\ pc' = "fonts_loop"
            /\ exc' = exc
            /\ report' = Append(report, Msg("header", <<>>, <<>>))
    /\ fonts_todo' = get_abs_path_subfiles(fonts_path)
    /\ UNCHANGED <<inputVars, dry_run, files, dirs, dotsVars, package_mgrs, pm_done, k,
                   procs, writes>>

\* lines 118-124: one iteration of the loop over the fonts
FontsCopy ==
    /\ pc = "fonts_loop"
    /\ fonts_todo # <<>>
    /\ LET font == Head(fonts_todo)
           dest_path == Quote(Join(fonts_dir, LastPart(font)))
           out == CopyfileOutcome(Quote(font), Quote(dest_path))
       IN  IF dry_run
           THEN /\ report' = Append(report, Msg("dry_run_copy", font, dest_path))
                /\ UNCHANGED <<pc, exc, files, writes>>
           ELSE /\ report' = report
                /\ files' = IF out = "none" THEN files \cup {FsKey(Quote(dest_path))}
                            ELSE files
                /\ writes' = IF out = "none"
                             THEN Append(writes, Msg("copyfile", Quote(font), Quote(dest_path)))
                             ELSE writes
                /\ pc' = IF out = "none" THEN pc ELSE "exit"
                /\ exc' = IF out = "none" THEN exc ELSE out
    /\ fonts_todo' = Tail(fonts_todo)
    /\ UNCHANGED <<inputVars, dry_run, dirs, dotsVars, package_mgrs, pm_done, k, procs, phases>>

\* line 125: the loop is over
FontsEnd ==
    /\ pc = "fonts_loop"
    /\ fonts_todo = <<>>
    /\ report' = Append(report, Msg("completed", <<>>, <<>>))
    /\ phases' = Append(phases, PhaseEv("fonts", "end", dry_run))
    /\ pc' = AfterPhase("fonts")
    /\ dry_run' = NextDryRun
    /\ UNCHANGED <<inputVars, exc, files, dirs, dotsVars, otherVars, procs, writes>>

\* lines 130-133: the call, the emptiness check and the header
ConfigsStart ==
    /\ pc = "configs_start"
    /\ phases' = Append(phases, PhaseEv("configs", "start", dry_run))
    /\ IF DirIsEmpty(configs_path)
       THEN /\ pc' = "exit"
            /\ exc' = "SystemExit"
            /\ report' = Append(report, Msg("no_backup", configs_path, <<>>))
       ELSE /\ pc' = "configs_loop"
            /\ exc' = exc
            /\ report' = Append(report, Msg("header", <<>>, <<>>))
    /\ k' = 1
    /\ UNCHANGED <<inputVars, dry_run, files, dirs, dotsVars, package_mgrs, pm_done,
                   fonts_todo, procs, writes>>

\* the files shutil.copytree(src, dst) makes
TreeCopy(src, dst) ==
    {FsKey(Join(dst, RelTo(f, FsKey(src)))) : f \in {g \in files : IsUnder(g, FsKey(src))}}

\* what shutil.copytree(src, dst) raises, "none" when it copies
CopytreeOutcome(src, dst) ==
    IF IsDir(dst) \/ IsFile(dst) THEN "FileExistsError"
    ELSE safe_mkdir(dst).exc

\* lines 134-145: one iteration of the loop over the config mapping
ConfigsCopy ==
    /\ pc = "configs_loop"
    /\ k <= Len(config_mapping)
    /\ LET dest_path == Quote(config_mapping[k].dest)
           source_path == Quote(Join(configs_path, config_mapping[k].loc))
           isdir == IsDir(source_path)
           isfile == IsFile(source_path)
           out == IF isdir THEN CopytreeOutcome(source_path, dest_path)
                  ELSE IF isfile THEN CopyfileOutcome(source_path, dest_path)
                  ELSE "skip"
           made == IF isdir THEN TreeCopy(source_path, dest_path)
                   ELSE {FsKey(dest_path)}
       IN  IF dry_run
           THEN /\ report' = Append(report, Msg("dry_run_copy", source_path, dest_path))
                /\ k' = k + 1
                /\ UNCHANGED <<pc, exc, files, dirs, writes>>
           ELSE /\ report' = report
                /\ files' = IF out = "none" THEN files \cup made ELSE files
                /\ dirs' = IF isdir /\ out = "none"
                           THEN dirs \cup DirsOf(made) \cup {FsKey(dest_path)}
                           ELSE IF isdir /\ out # "FileExistsError"
                           THEN dirs \cup safe_mkdir(dest_path).made
                           ELSE dirs
                /\ writes' = IF out = "none"
                             THEN Append(writes, Msg(IF isdir THEN "copytree" ELSE "copyfile",
                                                     source_path, dest_path))
                             ELSE writes
                /\ pc' = IF out \in {"none", "skip"} THEN pc ELSE "exit"
                /\ exc' = IF out \in {"none", "skip"} THEN exc ELSE out
                /\ k' = IF out \in {"none", "skip"} THEN k + 1 ELSE k
    /\ UNCHANGED <<inputVars, dry_run, dotsVars, package_mgrs, pm_done, fonts_todo, procs, phases>>

\* line 147: the loop is over
ConfigsEnd ==
    /\ pc = "configs_loop"
    /\ k > Len(config_mapping)
    /\ report' = Append(report, Msg("completed", <<>>, <<>>))
    /\ phases' = Append(phases, PhaseEv("configs", "end", dry_run))
    /\ pc' = AfterPhase("configs")
    /\ dry_run' = NextDryRun
    /\ UNCHANGED <<inputVars, exc, files, dirs, dotsVars, otherVars, procs, writes>>


(* ------------------------------------------------------------------ *)
(* The runs                                                            *)
(* ------------------------------------------------------------------ *)
BackupRoot == <<"/", "b">>
HomeRoot == <<"/", "h">>
RootDir == <<"/">>

\* a dotfile backup: files, a directory with files at two depths, and the
\* encoded absolute paths /e (a file) and /f (a directory)
BackupTree == {<<"/", "b", "/", "a">>, <<"/", "b", "/", "d", "/", "a">>, <<"/", "b", "/", "d", "/", "b">>, <<"/", "b", "/", "d", "/", "c", "/", "a">>, <<"/", "b", "/", ":", "e">>, <<"/", "b", "/", ":", "f", "/", "a">>}

\* the identifiers a rule may have; m has no backup data
Identifiers == {<<"a">>, <<"d">>, <<"d", "/", "b">>, <<"m">>, <<"/", "e">>, <<"/", "f">>}

Conditions == {"", "true", "false"}
Rules == [id : Identifiers, cond : Conditions]

\* the configurations: a dict, so no identifier twice
Configs ==
    UNION {{c \in [1..n -> Rules] :
               \A x, y \in 1..n : x # y => c[x].id # c[y].id} : n \in 0..MaxRules}

\* the state of the live filesystem: files already there, paths that may not
\* be written, backup files that vanish; a dry run never looks at it
Scenarios ==
    {[live |-> {}, denied |-> {}, vanishing |-> {}],
     [live |-> {<<"/", "h", "/", "d">>}, denied |-> {}, vanishing |-> {}],
     [live |-> {},
      denied |-> {<<"/", "h", "/", "a">>, <<"/", "e">>, <<"/", "f">>},
      vanishing |-> {<<"/", "b", "/", "d", "/", "a">>}]}

Defaults ==
    /\ pc = entry \o "_start"
    /\ exc = "none"
    /\ i = 0
    /\ dotfiles_to_reinstall = <<>>
    /\ full_path_dotfiles_to_reinstall = <<>>
    /\ j = 0
    /\ reinstallation_error_count = 0
    /\ files_with_permission_errors = {}
    /\ permission_report = <<>>
    /\ package_mgrs = {}
    /\ pm_done = {}
    /\ fonts_todo = <<>>
    /\ k = 0
    /\ report = <<>>
    /\ procs = <<>>
    /\ writes = <<>>
    /\ phases = <<>>

NoDots ==
    /\ dots_path = BackupRoot
    /\ home_path = HomeRoot
    /\ config = <<>>
    /\ vanishing = {}

NoPackages ==
    /\ pkg_files = {}
    /\ vscode_lines = 0

\* reinstall_dots_sb(dots_path, home_path, dry_run) on the backup tree, or on
\* an empty backup
InitDots ==
    /\ entry = "dots"
    /\ dry_run \in BOOLEAN
    /\ all_dry_run = dry_run
    /\ dots_path = BackupRoot
    /\ home_path = HomeRoot
    /\ config \in Configs
    /\ \E sc \in Scenarios, empty \in BOOLEAN :
        /\ (empty \/ dry_run) => (sc.live = {} /\ sc.denied = {})
        /\ files = IF empty THEN {} ELSE BackupTree \cup sc.live
        /\ dirs = DirsOf(files) \cup {RootDir, BackupRoot, HomeRoot}
        /\ denied = sc.denied
        /\ vanishing = sc.vanishing
    /\ NoPackages
    /\ config_mapping = <<>>
    /\ Defaults

\* the absolute paths of at most MaxPathLen characters
PathChars == {"/", ":", ".", "a"}
AbsPaths ==
    {p \in UNION {[1..n -> PathChars] : n \in 1..MaxPathLen} : p[1] = SEP}

\* reinstall_dots_sb with one rule whose identifier is any absolute path, backed
\* up as a file or as a directory holding one file
InitAbsolute ==
    /\ entry = "dots"
    /\ dry_run \in BOOLEAN
    /\ all_dry_run = dry_run
    /\ dots_path \in {BackupRoot, BackupRoot \o <<SEP>>}
    /\ home_path = HomeRoot
    /\ \E P \in AbsPaths, asdir \in BOOLEAN :
        /\ config = <<[id |-> P, cond |-> ""]>>
        /\ files = {FsKey(IF asdir THEN Join(Join(dots_path, Encode(P)), <<"a">>)
                          ELSE Join(dots_path, Encode(P)))}
    /\ dirs = DirsOf(files) \cup {RootDir, HomeRoot}
    /\ denied = {}
    /\ vanishing = {}
    /\ NoPackages
    /\ config_mapping = <<>>
    /\ Defaults

\* the files the packages directory may hold
PkgUniverse ==
    {ListFile("brew"), <<"brew", "_", "other.txt">>, <<"brew", "-", "list.txt">>,
     ListFile("unknownmgr"), ListFile("macports"), ListFile("vscode"),
     ListFile("pip"), ListFile("pip3"), ListFile("npm"), ListFile("gem"),
     ListFile("cargo")}

MaxPkgFiles == 3

\* reinstall_packages_sb(packages_path, dry_run)
InitPackages ==
    /\ entry = "packages"
    /\ dry_run \in BOOLEAN
    /\ all_dry_run = dry_run
    /\ pkg_files \in {S \in SUBSET PkgUniverse : Cardinality(S) <= MaxPkgFiles}
    /\ vscode_lines \in 0..MaxLines
    /\ NoDots
    /\ files = {}
    /\ dirs = {RootDir}
    /\ denied = {}
    /\ config_mapping = <<>>
    /\ Defaults

FontTree == {<<"/", "n", "/", "a">>, <<"/", "n", "/", "a", " ", "b">>, <<"/", "n", "/", "d", "/", "a">>}
FontsDirs == {{RootDir, fonts_path, fonts_dir}, {RootDir, fonts_path}}

\* reinstall_fonts_sb(fonts_path, dry_run)
InitFonts ==
    /\ entry = "fonts"
    /\ dry_run \in BOOLEAN
    /\ all_dry_run = dry_run
    /\ files \in SUBSET FontTree
    /\ \E ds \in FontsDirs : dirs = DirsOf(files) \cup ds
    /\ denied \in SUBSET {<<"/", "l", "/", "a">>}
    /\ NoDots
    /\ NoPackages
    /\ config_mapping = <<>>
    /\ Defaults

ConfigTree == {<<"/", "c", "/", "a">>, <<"/", "c", "/", "d", "/", "a">>}
Mappings == {[dest |-> <<"/", "h", "/", "a">>, loc |-> <<"a">>], [dest |-> <<"/", "h", "/", "d">>, loc |-> <<"d">>],
             [dest |-> <<"/", "h", "/", "m">>, loc |-> <<"m">>]}

\* reinstall_configs_sb(configs_path, dry_run)
InitConfigs ==
    /\ entry = "configs"
    /\ dry_run \in BOOLEAN
    /\ all_dry_run = dry_run
    /\ files \in {{}, ConfigTree, ConfigTree \cup {<<"/", "h", "/", "a">>}, ConfigTree \cup {<<"/", "h", "/", "d", "/", "a">>}}
    /\ dirs = DirsOf(files) \cup {RootDir, configs_path, HomeRoot}
    /\ denied \in SUBSET {<<"/", "h", "/", "a">>}
    /\ config_mapping \in
           UNION {{c \in [1..n -> Mappings] :
                      \A x, y \in 1..n : x # y => c[x].dest # c[y].dest} : n \in 0..2}
    /\ NoDots
    /\ NoPackages
    /\ Defaults

\* reinstall_all_sb(dotfiles_path, packages_path, fonts_path, configs_path,
\* dry_run): each backup category present or empty
InitAll ==
    /\ entry = "all"
    /\ all_dry_run \in BOOLEAN
    /\ dry_run = FALSE
    /\ dots_path = BackupRoot
    /\ home_path = HomeRoot
    /\ config \in {<<[id |-> <<"a">>, cond |-> "true"], [id |-> <<"/", "e">>, cond |-> ""]>>,
                   <<[id |-> <<"/", "f">>, cond |-> ""]>>}
    /\ \E d, f, c \in BOOLEAN :
        files = (IF d THEN BackupTree ELSE {}) \cup (IF f THEN {<<"/", "n", "/", "a">>} ELSE {})
                    \cup (IF c THEN ConfigTree ELSE {})
    /\ dirs = DirsOf(files) \cup {RootDir, BackupRoot, HomeRoot, fonts_path, fonts_dir,
                                  configs_path}
    /\ denied \in {{}, {<<"/", "f">>}}
    /\ vanishing = {}
    /\ pkg_files \in {{}, {ListFile("brew"), ListFile("macports")}}
    /\ vscode_lines = 0
    /\ config_mapping = <<[dest |-> <<"/", "h", "/", "m">>, loc |-> <<"a">>]>>
    /\ Defaults

Init == InitDots \/ InitAbsolute \/ InitPackages \/ InitFonts \/ InitConfigs \/ InitAll

\* lines 232-235: reinstall_all_sb calls the first entry point
AllStart ==
    /\ pc = "all_start"
    /\ pc' = "dots_start"
    /\ dry_run' = NextDryRun
    /\ UNCHANGED <<inputVars, exc, files, dirs, dotsVars, otherVars, report, procs,
                   writes, phases>>

Next ==
    \/ AllStart
    \/ DotsStart \/ DotsRule \/ DotsPairs \/ DotsCopy \/ DotsReport
    \/ PackagesStart \/ PackagesManager \/ PackagesEnd
    \/ FontsStart \/ FontsCopy \/ FontsEnd
    \/ ConfigsStart \/ ConfigsCopy \/ ConfigsEnd

Spec == Init /\ [][Next]_vars


(* ------------------------------------------------------------------ *)
(* Properties                                                          *)
(* ------------------------------------------------------------------ *)
\* the entry point that is running, or that an exception ended
InPhase(ph) ==
    /\ phases # <<>>
    /\ phases[Len(phases)].phase = ph
    /\ phases[Len(phases)].ev = "start"

HasKind(log, kind) == \E n \in 1..Len(log) : log[n].kind = kind

\* C1: with the dry-run flag set, a run starts no process and writes nothing
\* to the filesystem, whatever the backup holds and whatever the rules are,
\* rules with a reinstall_condition included.
C1_DryRunNoProcessNoWrite ==
    all_dry_run => (procs = <<>> /\ writes = <<>>)

\* C2: in a dotfile reinstallation that is not a dry run, a permission-denied
\* failure while a pair is materialized (creating the parent directories or
\* copying the file) never ends the batch.
C2_PermissionNeverAbortsBatch ==
    ~(InPhase("dots") /\ pc = "exit" /\ exc = "PermissionError")

\* the pair about to be processed has a destination whose parent is a file
C3Conflict ==
    /\ pc = "dots_copy"
    /\ j <= Len(full_path_dotfiles_to_reinstall)
    /\ ~dry_run
    /\ IsFile(Parent(full_path_dotfiles_to_reinstall[j].dst))

\* C3: when the parent of a pair's destination is a regular file, processing
\* the pair adds exactly 1 to the error count, creates no directory and copies
\* nothing, and the loop goes on with the next pair; and when the batch ends,
\* the manual-remediation notice is printed exactly when the count is above 0.
C3_StructuralConflict ==
    [][/\ C3Conflict =>
            /\ reinstallation_error_count' = reinstallation_error_count + 1
            /\ writes' = writes
            /\ files' = files
            /\ dirs' = dirs
            /\ j' = j + 1
            /\ pc' = "dots_copy"
            /\ exc' = "none"
       /\ (pc = "dots_copy" /\ pc' \notin {"dots_copy", "exit"}) =>
            ((\E n \in (Len(report) + 1)..Len(report') :
                    report'[n].kind = "manual_resolution")
                <=> reinstallation_error_count > 0)]_vars

\* a batch whose first pair hit the conflict and whose second pair was copied
C3_Witness ==
    /\ entry = "dots"
    /\ pc = "done"
    /\ reinstallation_error_count = 1
    /\ Len(full_path_dotfiles_to_reinstall) >= 2
    /\ \E n \in 1..Len(report) :
           /\ report[n].kind = "parent_is_file"
           /\ report[n].b = full_path_dotfiles_to_reinstall[1].dst
    /\ \E n \in 1..Len(writes) :
           /\ writes[n].kind = "copy"
           /\ writes[n].a = full_path_dotfiles_to_reinstall[2].src
    /\ HasKind(report, "manual_resolution")

\* C4: for an absolute path P used as a rule identifier and any backup root,
\* the source path made by encoding P decodes to P: the destination string is
\* P itself, and the pair's destination is the path P.
C4_RoundTrip ==
    \A n \in 1..Len(full_path_dotfiles_to_reinstall) : \A r \in 1..Len(config) :
        (/\ StartsWith(config[r].id, <<SEP>>)
         /\ dotfiles_to_reinstall[n] = Join(dots_path, Encode(config[r].id)))
        => /\ Dest(dots_path, home_path, dotfiles_to_reinstall[n]) = config[r].id
           /\ full_path_dotfiles_to_reinstall[n].dst = PurePath(config[r].id)

\* the absolute path /:a, backed up under a root written with a trailing
\* separator, came back as the destination
C4_Witness ==
    /\ dots_path = BackupRoot \o <<SEP>>
    /\ Len(config) = 1
    /\ config[1].id = <<"/", ":", "a">>
    /\ Len(full_path_dotfiles_to_reinstall) = 1
    /\ dotfiles_to_reinstall[1] = <<"/", "b", "/", ":", ":", "a">>
    /\ full_path_dotfiles_to_reinstall[1].dst = <<"/", ":", "a">>

\* C5: the destination of a source found under a home-relative rule is
\* HomeRoot followed by the source path with only its leading BackupRoot
\* removed, the rest kept as it is, a later segment that contains the
\* BackupRoot string included.
C5_HomeRelativeDest ==
    \A n \in 1..Len(full_path_dotfiles_to_reinstall) :
        ~StartsWith(dotfiles_to_reinstall[n], Join(dots_path, <<SENTINEL>>))
        => full_path_dotfiles_to_reinstall[n].dst =
               PurePath(home_path \o <<SEP>>
                            \o Drop(dotfiles_to_reinstall[n], Len(dots_path)))

\* the sources of the first n rules, the rules whose condition is false left out
RECURSIVE AcceptedSources(_)
AcceptedSources(n) ==
    IF n = 0 THEN <<>>
    ELSE AcceptedSources(n - 1)
             \o (IF config[n].cond = "false" THEN <<>>
                 ELSE RuleSources(dots_path, config[n].id))

\* C6: a rule whose condition is false is never expanded or copied: the source
\* list is the one the other rules give without it, the pairs are the pairs of
\* that list, and every dry-run line, directory creation and copy is for one
\* of those pairs.
C6_RejectedRuleAbsent ==
    /\ pc = "dots_rules" => dotfiles_to_reinstall = AcceptedSources(i - 1)
    /\ pc = "dots_copy" =>
        /\ dotfiles_to_reinstall = AcceptedSources(Len(config))
        /\ Len(full_path_dotfiles_to_reinstall) = Len(dotfiles_to_reinstall)
        /\ \A n \in 1..Len(dotfiles_to_reinstall) :
               full_path_dotfiles_to_reinstall[n].src = PurePath(dotfiles_to_reinstall[n])
        /\ \A m \in 1..Len(report) : report[m].kind = "dry_run_copy" =>
               \E n \in 1..Len(full_path_dotfiles_to_reinstall) :
                   /\ full_path_dotfiles_to_reinstall[n].src = report[m].a
                   /\ full_path_dotfiles_to_reinstall[n].dst = report[m].b
        /\ \A m \in 1..Len(writes) :
               \E n \in 1..Len(full_path_dotfiles_to_reinstall) :
                   \/ /\ writes[m].kind = "copy"
                      /\ full_path_dotfiles_to_reinstall[n].src = writes[m].a
                   \/ /\ writes[m].kind = "mkdir"
                      /\ Parent(full_path_dotfiles_to_reinstall[n].dst) = writes[m].b

\* two rules, the first with backup data and a false condition, the second
\* accepted and copied
C6_Witness ==
    /\ pc = "dots_copy"
    /\ Len(config) = 2
    /\ config[1].cond = "false"
    /\ RuleSources(dots_path, config[1].id) # <<>>
    /\ j > Len(full_path_dotfiles_to_reinstall)
    /\ HasKind(writes, "copy")

\* C7: an empty backup directory ends only the entry point that reads it: in
\* a run of reinstall_all_sb the entry points after it are still executed, so
\* a run that an empty directory ended was in its last entry point.
C7_EmptyDirEndsOnlyItsEntryPoint ==
    (entry = "all" /\ pc = "exit" /\ exc = "SystemExit")
    => phases[Len(phases)].phase = "configs"

\* the part of a file name before its first '_' or '-'
RECURSIVE LeadingToken(_)
LeadingToken(f) ==
    IF f = <<>> \/ Head(f) \in {"_", "-"} THEN <<>>
    ELSE <<Head(f)>> \o LeadingToken(Tail(f))

\* C8: a manager is recognized exactly when some file of the packages
\* directory has a leading token, the part before the first '_' or '-', that
\* is one of the known managers.
C8_ManagersRecognized ==
    pc = "packages_loop" =>
        package_mgrs = {m \in KnownManagers : \E f \in pkg_files : LeadingToken(f) = m}

\* the regular files a rule denotes
DenotedFiles(id) ==
    LET real == Join(dots_path, Encode(id))
    IN  IF IsFile(real) THEN {FsKey(real)}
        ELSE {f \in files : IsUnder(f, FsKey(real))}

\* the number of files the accepted rules among the first n denote
RECURSIVE SumFiles(_)
SumFiles(n) ==
    IF n = 0 THEN 0
    ELSE SumFiles(n - 1)
             + (IF config[n].cond = "false" THEN 0
                ELSE Cardinality(DenotedFiles(config[n].id)))

\* C9: an accepted rule gives exactly one source, and one pair, for each
\* regular file it denotes: one for a file, N for a directory holding N files
\* at any depth and none for the directory itself, none for a path that is not
\* in the backup, which raises nothing and lets the later rules be expanded.
C9_OnePairPerFile ==
    /\ pc = "dots_rules" =>
        /\ exc = "none"
        /\ Len(dotfiles_to_reinstall) = SumFiles(i - 1)
        /\ \A n \in 1..Len(dotfiles_to_reinstall) : IsFile(dotfiles_to_reinstall[n])
        /\ \A r \in 1..Len(config) :
               LET srcs == RuleSources(dots_path, config[r].id)
               IN  /\ {FsKey(srcs[n]) : n \in 1..Len(srcs)} = DenotedFiles(config[r].id)
                   /\ Len(srcs) = Cardinality(DenotedFiles(config[r].id))
    /\ pc = "dots_copy" =>
        Len(full_path_dotfiles_to_reinstall) = SumFiles(Len(config))

\* a rule without backup data, then a directory of three files at two depths
C9_Witness ==
    /\ pc = "dots_copy"
    /\ Len(config) = 2
    /\ config[1].id = <<"m">>
    /\ config[2].id = <<"d">>
    /\ Len(full_path_dotfiles_to_reinstall) = 3
    /\ \E n \in 1..3 :
           full_path_dotfiles_to_reinstall[n].src = <<"/", "b", "/", "d", "/", "c", "/", "a">>

\* the calls of reinstall_all_sb, each with its start and its end
Canon(d) ==
    <<PhaseEv("dots", "start", d), PhaseEv("dots", "end", d),
      PhaseEv("packages", "start", d), PhaseEv("packages", "end", d),
      PhaseEv("fonts", "start", d), PhaseEv("fonts", "end", d),
      PhaseEv("configs", "start", d), PhaseEv("configs", "end", d)>>

\* C10: reinstall_all_sb runs dotfiles, packages, fonts, configs in this
\* order, each ended before the next starts, each with the dry-run flag of
\* the call.
C10_FixedOrder ==
    entry = "all" =>
        /\ Len(phases) <= Len(Canon(all_dry_run))
        /\ phases = SubSeq(Canon(all_dry_run), 1, Len(phases))

\* a dry run of reinstall_all_sb that went through its four entry points
C10_Witness ==
    /\ entry = "all"
    /\ all_dry_run
    /\ pc = "done"
    /\ Len(phases) = 8

====
